---------------------------- MODULE Spec2Model ----------------------------
(***************************************************************************)
(* A model of the compliance-analysis backend:                             *)
(*   - AnalysisRepository (backend/src/db/client.ts): saveAnalysis as a    *)
(*     transaction on a pooled connection, one step per awaited statement, *)
(*     and getAnalysis with its row mappers;                               *)
(*   - E2BAgent (src/unnamed/part_001): the sandbox session handle and the *)
(*     calls that create, use and kill it, one step per await.             *)
(*   - the retrieval routes (backend/src/api/routes.ts) and the read       *)
(*     functions of the repository behind them;                            *)
(*   - RunAnalysis of the Orchestrator, as the specification gives it;     *)
(*   - the migration script (backend/scripts/migrate.js).                  *)
(* The database and the sandbox service are the environment: a statement,  *)
(* a connect, a sandbox creation, a code execution or a kill may fail at   *)
(* any time.                                                               *)
(***************************************************************************)
EXTENDS Integers, Sequences, FiniteSets, TLC

\* ------------------------------------------------------------------ bounds
\* Number of saveAnalysis calls issued in one behaviour.
MaxSaves == 2
\* Longest findings list of a saved result.
MaxFindings == 2

\* Concurrent saveAnalysis callers, and the connections of the pool.
Savers == {"s1", "s2"}
Conns == {"c1", "c2"}
NoConn == "none"

\* ------------------------------------------------------------ value domains
\* JavaScript undefined and SQL NULL / JavaScript null, for a string member
\* and for a numeric member (line and column numbers are never negative).
Absent == "undefined"
Null == "null"
AbsentNum == 0 - 1
NullNum == 0 - 2

AnalysisIds == {"a1", "a2"}

\* The optional members of a finding: all present, all absent, all falsy.
OptPresent == [line |-> 3, column |-> 1, code |-> "x", fixSuggestion |-> "y"]
OptAbsent == [line |-> AbsentNum, column |-> AbsentNum, code |-> Absent, fixSuggestion |-> Absent]
OptFalsy == [line |-> 0, column |-> 0, code |-> "", fixSuggestion |-> ""]

MkFinding(id, sev, file, opt) ==
    [id |-> id, type |-> "security", severity |-> sev, message |-> "m",
     file |-> file, line |-> opt.line, column |-> opt.column, code |-> opt.code,
     fixSuggestion |-> opt.fixSuggestion, ruleId |-> "r", ruleName |-> "R"]

\* The findings of analysis aid as the analyzers emit them, most recent last.
\* Finding ids are fresh per analysis (uuidv4). The first is complete, the
\* second has no optional member and sorts before the first, the third has
\* falsy optional members.
EmittedFindings(aid) ==
    << MkFinding(<<aid, 1>>, "medium", "b.js", OptPresent),
       MkFinding(<<aid, 2>>, "critical", "a.js", OptAbsent),
       MkFinding(<<aid, 3>>, "low", "a.js", OptFalsy),
       MkFinding(<<aid, 4>>, "high", "c.js", OptPresent) >>

\* The findings lists of a result of analysis aid: up to MaxFindings findings.
FindingLists(aid) ==
    { SubSeq(EmittedFindings(aid), 1, n) : n \in 0..MaxFindings }

CountSev(fs, sev) == Cardinality({ i \in 1..Len(fs) : fs[i].severity = sev })

\* stats as the aggregation step computes it from the findings.
StatsOf(fs) ==
    [totalFiles |-> 1, totalFindings |-> Len(fs),
     critical |-> CountSev(fs, "critical"), high |-> CountSev(fs, "high"),
     medium |-> CountSev(fs, "medium"), low |-> CountSev(fs, "low"),
     info |-> CountSev(fs, "info")]

\* The repository an analysis is of and the time it was made: analysis a1 is
\* the later one and of another repository than a2.
RepoOf(id) == IF id = "a2" THEN "o/q" ELSE "o/r"
AnalyzedAt(id) == IF id = "a2" THEN 1 ELSE 2

MkResult(id, fs) ==
    [id |-> id, prNumber |-> 7, repoFullName |-> RepoOf(id), status |-> "completed",
     findings |-> fs, analyzedAt |-> AnalyzedAt(id), duration |-> 30,
     stats |-> StatsOf(fs)]

\* The AnalysisResult values passed to saveAnalysis.
Results == UNION { { MkResult(id, fs) : fs \in FindingLists(id) } : id \in AnalysisIds }

NoResult == MkResult("none", <<>>)

VARIABLES
    analyses,   \* committed rows of table analyses, in insertion order
    findings,   \* committed rows of table findings, in insertion order
    conns,      \* the pool's connections: transaction state, pending rows, checkout
    save,       \* per caller: the saveAnalysis call it is in
    ncalls      \* saveAnalysis calls issued so far

repoVars == <<analyses, findings, conns, save, ncalls>>

\* ------------------------------------------------- agent state
VARIABLES
    sandbox,     \* this.sandbox: NoSession (null) or the session held
    nsess,       \* sandboxes the service has created: sessions 1..nsess
    kills,       \* the sessions kill() was invoked on
    call,        \* per caller: the call it is in
    issued,      \* the ops of the calls issued so far, in order
    ret,         \* the call that returned last, as it ended
    workspace    \* per session: the files written to its /workspace

agentVars == <<sandbox, nsess, kills, call, issued, ret, workspace>>

\* ------------------------------------------------- retrieval API state
VARIABLES
    rd,          \* the read request being served: where it is suspended
    resp         \* the last response sent, with what the repository returned

readVars == <<rd, resp>>

\* ------------------------------------------------- orchestrator state
VARIABLES
    run          \* the RunAnalysis call: its analyzer tasks and what it made of them

orchVars == <<run>>

\* ------------------------------------------------- migration script state
VARIABLES
    mig          \* the run of scripts/migrate.js: where it is and what it did

migVars == <<mig>>

vars == <<repoVars, agentVars, readVars, orchVars, migVars>>


\* ------------------------------------------------------- rows and mappers
\* `x || null` of a string member: undefined and '' are stored as NULL.
OrNull(v) == IF v \in {Absent, ""} THEN Null ELSE v

\* `x || null` of a numeric member: undefined and 0 are stored as NULL.
OrNullNum(n) == IF n \in {AbsentNum, 0} THEN NullNum ELSE n

\* The parameter list of INSERT INTO analyses; `by` is not a column: it records
\* the call that inserted the row.
AnalysisRow(r, callId) ==
    [id |-> r.id, pr_number |-> r.prNumber, repo_full_name |-> r.repoFullName,
     status |-> r.status, analyzed_at |-> r.analyzedAt, duration |-> r.duration,
     total_files |-> r.stats.totalFiles, total_findings |-> r.stats.totalFindings,
     critical_count |-> r.stats.critical, high_count |-> r.stats.high,
     medium_count |-> r.stats.medium, low_count |-> r.stats.low,
     info_count |-> r.stats.info, by |-> callId]

\* The parameter list of INSERT INTO findings.
FindingRow(r, f, callId) ==
    [id |-> f.id, analysis_id |-> r.id, type |-> f.type, severity |-> f.severity,
     message |-> f.message, file |-> f.file, line |-> OrNullNum(f.line),
     column |-> OrNullNum(f.column), code |-> OrNull(f.code),
     fix_suggestion |-> OrNull(f.fixSuggestion), rule_id |-> f.ruleId,
     rule_name |-> f.ruleName, by |-> callId]

\* Both tables are keyed by id.
KeyTaken(rows, id) == \E i \in 1..Len(rows) : rows[i].id = id

RECURSIVE KeysClash(_, _)
KeysClash(rows, pending) ==
    IF pending = <<>> THEN FALSE
    ELSE KeyTaken(rows, Head(pending).id) \/ KeysClash(Append(rows, Head(pending)), Tail(pending))

\* --------------------------------------------------------- the pool
FreshConn == [tx |-> "none", pa |-> <<>>, pf |-> <<>>, out |-> FALSE, owner |-> 0, rc |-> 0]

\* pool.connect(): the connection is checked out by the call.
Checkout(cs, c, callId) == [cs EXCEPT ![c].out = TRUE, ![c].owner = callId, ![c].rc = 0]

\* A mutation of ReleaseClient: the connection is never given back.
ReleaseClientNever(cs, c) == cs

\* client.release() in the finally block.
ReleaseClient(cs, c) == [cs EXCEPT ![c].out = FALSE, ![c].rc = @ + 1]

\* The transaction of connection c ends: its pending rows are gone.
EndTx(cs, c) == [cs EXCEPT ![c].tx = "none", ![c].pa = <<>>, ![c].pf = <<>>]

\* A statement failed on the server: an open transaction is aborted. Its
\* pending rows are lost for good, and every later statement in it fails until
\* it is rolled back.
AbortTx(cs, c) ==
    IF cs[c].tx = "open"
    THEN [cs EXCEPT ![c].tx = "aborted", ![c].pa = <<>>, ![c].pf = <<>>]
    ELSE cs

\* --------------------------------------------------------- saveAnalysis
IdleSave ==
    [pc |-> "idle", result |-> NoResult, call |-> 0, client |-> NoConn, i |-> 1,
     err |-> "none", outcome |-> "none", thrown |-> "none", rolledBackOn |-> NoConn]

\* The first caller not inside a call ("s2" only while "s1" is busy).
FirstFree == IF save["s1"].pc = "idle" THEN "s1" ELSE "s2"

Failed(sv, stmt) == [sv EXCEPT !.pc = "rollback", !.err = stmt]

\* The caller invokes saveAnalysis(r). Callers are interchangeable: a new call
\* takes the first free one.
SaveCall(s, r) ==
    /\ save[s].pc = "idle"
    /\ s = FirstFree
    /\ ncalls < MaxSaves
    /\ ncalls' = ncalls + 1
    /\ save' = [save EXCEPT ![s] = [IdleSave EXCEPT !.pc = "connect", !.result = r,
                                                   !.call = ncalls + 1]]
    /\ UNCHANGED <<analyses, findings, conns, agentVars, readVars, orchVars, migVars>>

\* await db.getClient(): a free connection is checked out, or the pool
\* rejects (no connection within the timeout, database unreachable) and
\* saveAnalysis rejects without having obtained one.
SaveConnect(s) ==
    /\ save[s].pc = "connect"
    /\ \/ \E c \in Conns :
            /\ ~conns[c].out
            /\ conns' = Checkout(conns, c, save[s].call)
            /\ save' = [save EXCEPT ![s].pc = "begin", ![s].client = c]
       \/ /\ save' = [save EXCEPT ![s].pc = "done", ![s].outcome = "rejected",
                                  ![s].err = "connect", ![s].thrown = "connect"]
          /\ UNCHANGED conns
    /\ UNCHANGED <<analyses, findings, ncalls, agentVars, readVars, orchVars, migVars>>

\* A mutation of SaveBegin: the transaction is never opened.
SaveBeginNoTx(s) ==
    /\ save[s].pc = "begin"
    /\ save' = [save EXCEPT ![s].pc = "analysis"]
    /\ UNCHANGED <<analyses, findings, conns, ncalls, agentVars, readVars, orchVars, migVars>>

\* await client.query('BEGIN')
SaveBegin(s) ==
    /\ save[s].pc = "begin"
    /\ LET c == save[s].client IN
       \/ /\ conns[c].tx # "aborted"
          /\ conns' = [conns EXCEPT ![c].tx = "open"]
          /\ save' = [save EXCEPT ![s].pc = "analysis"]
       \/ /\ save' = [save EXCEPT ![s] = Failed(@, "begin")]
          /\ UNCHANGED conns
    /\ UNCHANGED <<analyses, findings, ncalls, agentVars, readVars, orchVars, migVars>>

\* await client.query('INSERT INTO analyses ...'). Outside a transaction the
\* statement commits on its own.
SaveInsertAnalysis(s) ==
    /\ save[s].pc = "analysis"
    /\ LET c == save[s].client
           r == save[s].result
           row == AnalysisRow(r, save[s].call)
       IN \/ /\ conns[c].tx # "aborted"
             /\ ~KeyTaken(analyses \o conns[c].pa, row.id)
             /\ IF conns[c].tx = "open"
                  THEN /\ conns' = [conns EXCEPT ![c].pa = Append(@, row)]
                       /\ UNCHANGED analyses
                  ELSE /\ analyses' = Append(analyses, row)
                       /\ UNCHANGED conns
             /\ save' = [save EXCEPT ![s].pc = IF Len(r.findings) = 0 THEN "commit"
                                                ELSE "finding"]
          \/ /\ conns' = AbortTx(conns, c)
             /\ save' = [save EXCEPT ![s] = Failed(@, "analysis")]
             /\ UNCHANGED analyses
    /\ UNCHANGED <<findings, ncalls, agentVars, readVars, orchVars, migVars>>

\* A mutation of SaveInsertFinding: a failed insert is swallowed and the loop
\* goes on.
SaveInsertFindingSwallow(s) ==
    /\ save[s].pc = "finding"
    /\ LET c == save[s].client
           r == save[s].result
           row == FindingRow(r, r.findings[save[s].i], save[s].call)
           next == [save EXCEPT ![s].i = @ + 1,
                                ![s].pc = IF save[s].i = Len(r.findings) THEN "commit"
                                          ELSE "finding"]
       IN \/ /\ conns[c].tx = "open"
             /\ ~KeyTaken(findings \o conns[c].pf, row.id)
             /\ conns' = [conns EXCEPT ![c].pf = Append(@, row)]
             /\ save' = next
          \/ /\ conns' = AbortTx(conns, c)
             /\ save' = next
    /\ UNCHANGED <<analyses, findings, ncalls, agentVars, readVars, orchVars, migVars>>

\* One iteration of the loop over result.findings:
\* await client.query('INSERT INTO findings ...')
SaveInsertFinding(s) ==
    /\ save[s].pc = "finding"
    /\ LET c == save[s].client
           r == save[s].result
           row == FindingRow(r, r.findings[save[s].i], save[s].call)
       IN \/ /\ conns[c].tx # "aborted"
             /\ ~KeyTaken(findings \o conns[c].pf, row.id)
             /\ IF conns[c].tx = "open"
                  THEN /\ conns' = [conns EXCEPT ![c].pf = Append(@, row)]
                       /\ UNCHANGED findings
                  ELSE /\ findings' = Append(findings, row)
                       /\ UNCHANGED conns
             /\ save' = [save EXCEPT ![s].i = @ + 1,
                                     ![s].pc = IF save[s].i = Len(r.findings) THEN "commit"
                                               ELSE "finding"]
          \/ /\ conns' = AbortTx(conns, c)
             /\ save' = [save EXCEPT ![s] = Failed(@, "finding")]
             /\ UNCHANGED findings
    /\ UNCHANGED <<analyses, ncalls, agentVars, readVars, orchVars, migVars>>

\* await client.query('COMMIT'), then the finally block and the return. The
\* pending rows become visible together; a COMMIT of an aborted transaction
\* ends it as a rollback and reports no error; a COMMIT that fails commits
\* nothing.
SaveCommit(s) ==
    /\ save[s].pc = "commit"
    /\ LET c == save[s].client
           done == [save EXCEPT ![s].pc = "done", ![s].outcome = "resolved"]
       IN \/ /\ conns[c].tx = "open"
             /\ ~KeysClash(analyses, conns[c].pa)
             /\ ~KeysClash(findings, conns[c].pf)
             /\ analyses' = analyses \o conns[c].pa
             /\ findings' = findings \o conns[c].pf
             /\ conns' = ReleaseClient(EndTx(conns, c), c)
             /\ save' = done
          \/ /\ conns[c].tx # "open"
             /\ conns' = ReleaseClient(EndTx(conns, c), c)
             /\ save' = done
             /\ UNCHANGED <<analyses, findings>>
          \/ /\ conns' = EndTx(conns, c)
             /\ save' = [save EXCEPT ![s] = Failed(@, "commit")]
             /\ UNCHANGED <<analyses, findings>>
    /\ UNCHANGED <<ncalls, agentVars, readVars, orchVars, migVars>>

\* A mutation of SaveRollback: the catch block also deletes what is stored
\* under the id of the result.
SaveRollbackDelete(s) ==
    /\ save[s].pc = "rollback"
    /\ LET c == save[s].client
           sv == [save[s] EXCEPT !.pc = "done", !.outcome = "rejected",
                                 !.rolledBackOn = c, !.thrown = save[s].err]
       IN /\ conns' = ReleaseClient(EndTx(conns, c), c)
          /\ save' = [save EXCEPT ![s] = sv]
          /\ analyses' = SelectSeq(analyses, LAMBDA row : row.id # save[s].result.id)
          /\ findings' = SelectSeq(findings,
                                   LAMBDA row : row.analysis_id # save[s].result.id)
    /\ UNCHANGED <<ncalls, agentVars, readVars, orchVars, migVars>>

\* The catch block: await client.query('ROLLBACK'), then throw; the finally
\* block releases. When ROLLBACK itself fails its error is the one thrown and
\* the connection keeps the transaction it had.
SaveRollback(s) ==
    /\ save[s].pc = "rollback"
    /\ LET c == save[s].client
           sv == [save[s] EXCEPT !.pc = "done", !.outcome = "rejected",
                                 !.rolledBackOn = c]
       IN \/ /\ conns' = ReleaseClient(EndTx(conns, c), c)
             /\ save' = [save EXCEPT ![s] = [sv EXCEPT !.thrown = save[s].err]]
          \/ /\ conns' = ReleaseClient(conns, c)
             /\ save' = [save EXCEPT ![s] = [sv EXCEPT !.thrown = "rollback"]]
    /\ UNCHANGED <<analyses, findings, ncalls, agentVars, readVars, orchVars, migVars>>

\* The caller has its answer and may call again. The checkout record of the
\* call is dropped with it.
SaveReturn(s) ==
    /\ save[s].pc = "done"
    /\ save' = [save EXCEPT ![s] = IdleSave]
    /\ conns' = [c \in Conns |-> IF conns[c].owner = save[s].call /\ ~conns[c].out
                                  THEN [conns[c] EXCEPT !.owner = 0, !.rc = 0]
                                  ELSE conns[c]]
    /\ UNCHANGED <<analyses, findings, ncalls, agentVars, readVars, orchVars, migVars>>

RepoInit ==
    /\ analyses = <<>>
    /\ findings = <<>>
    /\ conns = [c \in Conns |-> FreshConn]
    /\ save = [s \in Savers |-> IdleSave]
    /\ ncalls = 0

RepoNext ==
    \E s \in Savers :
        \/ \E r \in Results : SaveCall(s, r)
        \/ SaveConnect(s)
        \/ SaveBegin(s)
        \/ SaveInsertAnalysis(s)
        \/ SaveInsertFinding(s)
        \/ SaveCommit(s)
        \/ SaveRollback(s)
        \/ SaveReturn(s)


\* --------------------------------------------------------- getAnalysis
\* The severity and file columns are text: ORDER BY compares them as text.
TextOrder == << "a.js", "b.js", "c.js", "critical", "high", "info", "low", "medium" >>

TextRank(t) == CHOOSE k \in 1..Len(TextOrder) : TextOrder[k] = t

\* ORDER BY severity, file, line (ascending, NULL last).
RowBefore(a, b) ==
    LET ka == << TextRank(a.severity), TextRank(a.file), IF a.line = NullNum THEN 1000000 ELSE a.line >>
        kb == << TextRank(b.severity), TextRank(b.file), IF b.line = NullNum THEN 1000000 ELSE b.line >>
    IN \/ ka[1] < kb[1]
       \/ ka[1] = kb[1] /\ ka[2] < kb[2]
       \/ ka[1] = kb[1] /\ ka[2] = kb[2] /\ ka[3] < kb[3]

RECURSIVE InsertSorted(_, _)
InsertSorted(row, sorted) ==
    IF sorted = <<>> THEN << row >>
    ELSE IF RowBefore(row, Head(sorted)) THEN << row >> \o sorted
    ELSE << Head(sorted) >> \o InsertSorted(row, Tail(sorted))

RECURSIVE OrderBy(_)
OrderBy(rows) ==
    IF rows = <<>> THEN <<>>
    ELSE InsertSorted(rows[Len(rows)], OrderBy(SubSeq(rows, 1, Len(rows) - 1)))

\* SELECT * FROM tbl WHERE col = id (col is id or analysis_id).
WhereId(rows, id) == SelectSeq(rows, LAMBDA row : row.id = id)

\* A mutation of WhereAnalysisId: the WHERE clause is missing.
WhereAnalysisIdMissing(rows, id) == rows

WhereAnalysisId(rows, id) == SelectSeq(rows, LAMBDA row : row.analysis_id = id)

mapToFinding(row) ==
    [id |-> row.id, type |-> row.type, severity |-> row.severity,
     message |-> row.message, file |-> row.file, line |-> row.line,
     column |-> row.column, code |-> row.code, fixSuggestion |-> row.fix_suggestion,
     ruleId |-> row.rule_id, ruleName |-> row.rule_name]

mapToAnalysisResult(analysis, rows) ==
    [id |-> analysis.id, prNumber |-> analysis.pr_number,
     repoFullName |-> analysis.repo_full_name, status |-> analysis.status,
     findings |-> [k \in 1..Len(rows) |-> mapToFinding(rows[k])],
     analyzedAt |-> analysis.analyzed_at, duration |-> analysis.duration,
     stats |-> [totalFiles |-> analysis.total_files,
                totalFindings |-> analysis.total_findings,
                critical |-> analysis.critical_count, high |-> analysis.high_count,
                medium |-> analysis.medium_count, low |-> analysis.low_count,
                info |-> analysis.info_count]]

\* What getAnalysis(id) resolves to when its two queries run against the
\* committed tables as and fs: null, or the mapped result.
getAnalysis(as, fs, id) ==
    LET analysisResult == WhereId(as, id)
    IN IF Len(analysisResult) = 0
       THEN [found |-> FALSE, value |-> NoResult]
       ELSE [found |-> TRUE,
             value |-> mapToAnalysisResult(analysisResult[1],
                                           OrderBy(WhereAnalysisId(fs, id)))]

\* ------------------------------------------------------------- claims
Returned(s) == save[s].pc = "done"
Resolved(s) == Returned(s) /\ save[s].outcome = "resolved"
Rejected(s) == Returned(s) /\ save[s].outcome = "rejected"
FailedAfterBegin(s) == Rejected(s) /\ save[s].err \in {"analysis", "finding", "commit"}

RowsBy(rows, callId) == SelectSeq(rows, LAMBDA row : row.by = callId)

\* C1 as stated: once a saveAnalysis(result) that failed after BEGIN has
\* returned, neither table holds a row for result.id.
C1_NoRowsForIdAfterFailure ==
    \A s \in Savers :
        FailedAfterBegin(s) =>
            /\ WhereId(analyses, save[s].result.id) = <<>>
            /\ WhereAnalysisId(findings, save[s].result.id) = <<>>

\* C1 amended: once a saveAnalysis that failed after BEGIN has returned,
\* neither table holds a row that this call inserted (rows stored under the
\* same id by another, successful save remain).
C1_NoRowsOfFailedCall ==
    \A s \in Savers :
        FailedAfterBegin(s) =>
            /\ RowsBy(analyses, save[s].call) = <<>>
            /\ RowsBy(findings, save[s].call) = <<>>

\* A save that failed at its second finding, after two rows were inserted.
C1_Witness ==
    \E s \in Savers :
        /\ Rejected(s)
        /\ save[s].err = "finding"
        /\ save[s].i = 2
        /\ save[s].thrown = "finding"

\* C2: saveAnalysis resolves only when COMMIT has succeeded (no statement
\* failed and every row of the result is committed); when a statement fails,
\* ROLLBACK is issued on the connection of the transaction and the call
\* rejects.
C2_ResolvesOnlyCommitted ==
    \A s \in Savers :
        /\ Resolved(s) =>
              /\ save[s].err = "none"
              /\ Len(RowsBy(analyses, save[s].call)) = 1
              /\ Len(RowsBy(findings, save[s].call)) = Len(save[s].result.findings)
        /\ (Returned(s) /\ save[s].err # "none") => Rejected(s)
        /\ (Returned(s) /\ save[s].err \notin {"none", "connect"}) =>
              /\ save[s].rolledBackOn = save[s].client
              /\ save[s].client \in Conns
        /\ save[s].pc \in {"analysis", "finding", "commit"} => save[s].err = "none"

\* A save resolved with findings, and one rejected after a failed COMMIT.
C2_Witness ==
    /\ \E s \in Savers : Resolved(s) /\ Len(save[s].result.findings) = 2
    /\ \E s \in Savers : Rejected(s) /\ save[s].err = "commit"

\* C3: a saveAnalysis call that obtained a connection has released it exactly
\* once when it returns, on every exit path, and a connection is checked out
\* only while the call that obtained it is running.
C3_ReleasedExactlyOnce ==
    /\ \A s \in Savers :
          (Returned(s) /\ save[s].client # NoConn) =>
              LET cn == conns[save[s].client]
              IN cn.owner = save[s].call => (~cn.out /\ cn.rc = 1)
    /\ \A c \in Conns :
          conns[c].out =>
              /\ conns[c].rc = 0
              /\ \E s \in Savers :
                    /\ save[s].pc \in {"begin", "analysis", "finding", "commit", "rollback"}
                    /\ save[s].client = c
                    /\ save[s].call = conns[c].owner
    /\ (\A s \in Savers : save[s].pc \in {"idle", "done", "connect"}) =>
          \A c \in Conns : ~conns[c].out

\* All three exit paths have been taken: a commit, a failed statement with a
\* successful ROLLBACK, and a failed statement with a failed ROLLBACK.
C3_Witness ==
    /\ ncalls = MaxSaves
    /\ \A s \in Savers : Returned(s) /\ save[s].client # NoConn
    /\ \E s \in Savers : Rejected(s) /\ save[s].thrown = "rollback"
    /\ \E s \in Savers : Resolved(s) \/ (Rejected(s) /\ save[s].thrown = save[s].err)

\* C4 as stated: once saveAnalysis(r) has resolved, getAnalysis(r.id) returns
\* a result equal to r.
C4_RoundTrip ==
    \A s \in Savers :
        Resolved(s) =>
            getAnalysis(analyses, findings, save[s].result.id)
                = [found |-> TRUE, value |-> save[s].result]

\* ======================================================================
\* E2BAgent
\* ======================================================================
\* Calls issued on the agent in one behaviour, and sandboxes the service
\* hands out.
MaxOps == 3
MaxSessions == 2
\* Longest findings array in a scanner output.
MaxItems == 1

\* Concurrent callers of one agent.
Callers == {"k1", "k2"}
NoSession == 0
ScanOps == {"analyze", "scan", "fetch"}
Ops == ScanOps \cup {"initialize", "cleanup"}

\* The file lists passed to a call of op: context.files of analyzeWithMCP is
\* empty or holds one file, runSecurityScan is passed one file.
FileLists(op) ==
    IF op = "analyze" THEN { {}, {"a.js"} }
    ELSE IF op = "scan" THEN { {"a.js"} }
    ELSE { {} }

\* ------------------------------------------------- scanner output
\* A member of a finding object as the scanner printed it.
RawGood ==
    [isNull |-> FALSE, type |-> "security", severity |-> "critical", message |-> "m",
     file |-> "a.js", line |-> 3, column |-> AbsentNum, code |-> "x",
     fixSuggestion |-> Absent, ruleName |-> "Secret Detection"]

\* An object with no member at all.
RawBare ==
    [isNull |-> FALSE, type |-> Absent, severity |-> Absent, message |-> Absent,
     file |-> Absent, line |-> AbsentNum, column |-> AbsentNum, code |-> Absent,
     fixSuggestion |-> Absent, ruleName |-> Absent]

\* A null in the findings array.
RawNull == [RawBare EXCEPT !.isNull = TRUE]

\* An object whose type and severity are not of the Finding model.
RawOdd == [RawGood EXCEPT !.type = "bug", !.severity = "urgent", !.line = 0]

\* What a scanner run may print, in this order.
ScannerItems == << RawGood, RawBare, RawOdd, RawNull >>

\* The findings arrays of an output: up to n consecutive items.
ItemLists(n) ==
    { SubSeq(ScannerItems, i, j) : i \in 1..Len(ScannerItems), j \in 0..Len(ScannerItems) }
        \ { q \in { SubSeq(ScannerItems, i, j) : i \in 1..Len(ScannerItems),
                                                 j \in 0..Len(ScannerItems) } : Len(q) > n }

\* A text: what the regular expression and JSON.parse make of it.
\*   shape   "undefined" (no such member), "empty" (''), "plain" (no
\*           {..."findings"...} in it), "broken" (matched, not valid JSON),
\*           "json" (matched and valid)
\*   member  the findings member of the parsed object: "absent", "null",
\*           "string", "object" or "array"
\*   items   the elements of an array member
\*   error   the text contains 'error'
Text(shape, member, items, error) ==
    [shape |-> shape, member |-> member, items |-> items, error |-> error]

UndefinedText == Text("undefined", "absent", <<>>, FALSE)
EmptyText == Text("empty", "absent", <<>>, FALSE)

Texts ==
    { EmptyText, Text("plain", "absent", <<>>, FALSE), Text("plain", "absent", <<>>, TRUE),
      Text("broken", "absent", <<>>, FALSE) }
    \cup { Text("json", m, <<>>, m = "object") : m \in {"absent", "null", "string", "object"} }
    \cup { Text("json", "array", items, FALSE) : items \in ItemLists(MaxItems) }

\* What runPythonCode resolves to: an object with text and stdout.
ExecResults ==
    { [text |-> t, stdout |-> UndefinedText] : t \in Texts \cup {UndefinedText} }
    \cup { [text |-> f, stdout |-> t] : f \in {UndefinedText, EmptyText}, t \in Texts }

Falsy(t) == t.shape \in {"undefined", "empty"}

\* result.text || result.stdout || ''
OutputOf(result) ==
    IF ~Falsy(result.text) THEN result.text
    ELSE IF ~Falsy(result.stdout) THEN result.stdout
    ELSE EmptyText

\* finding.x || dflt, for a string member.
OrDefault(v, dflt) == IF v \in {Absent, ""} THEN dflt ELSE v

\* One element of parsed.findings mapped to a ComplianceFinding; k stands for
\* the fresh uuid.
MapRawFinding(raw, k) ==
    [id |-> << "uuid", k >>, type |-> OrDefault(raw.type, "security"),
     severity |-> OrDefault(raw.severity, "medium"),
     message |-> OrDefault(raw.message, ""), file |-> OrDefault(raw.file, ""),
     line |-> raw.line, column |-> raw.column, code |-> raw.code,
     fixSuggestion |-> raw.fixSuggestion,
     ruleId |-> << "e2b", OrDefault(raw.type, "unknown") >>,
     ruleName |-> OrDefault(raw.ruleName, "E2B Analysis")]

\* The output holds no JSON object with a findings array: no {..."findings"...}
\* in it, or not valid JSON, or a findings member that is no array.
Unparsable(output) == output.shape # "json" \/ output.member # "array"

NoFindings == [threw |-> FALSE, findings |-> <<>>]
ParseThrew == [threw |-> TRUE, findings |-> <<>>]

\* The body of the try block of parseAnalysisOutput: JSON.parse throws on
\* text that is not JSON, and reading a member of a null element throws.
ParseBody(output) ==
    IF output.shape # "json" /\ output.shape # "broken" THEN NoFindings
    ELSE IF output.shape = "broken" THEN ParseThrew
    ELSE IF output.member # "array" THEN NoFindings
    ELSE IF \E k \in 1..Len(output.items) : output.items[k].isNull THEN ParseThrew
    ELSE [threw |-> FALSE,
          findings |-> [k \in 1..Len(output.items) |-> MapRawFinding(output.items[k], k)]]

\* A mutation of parseAnalysisOutput: the catch block rethrows.
parseAnalysisOutputRethrow(output) == ParseBody(output)

\* parseAnalysisOutput: whatever the body throws is caught and [] returned.
parseAnalysisOutput(output) ==
    IF ParseBody(output).threw THEN NoFindings ELSE ParseBody(output)

\* ------------------------------------------------- agent calls
\* A call: op and position (pc names the await it is suspended at), the
\* session its pending execution runs in, and what it did so far.
\*   startSess  this.sandbox when the call was issued
\*   nth        the position of the call among the calls issued
\*   created    the call had a sandbox created
\*   execIn     the sessions the call started a script in
\*   killed     the call invoked kill()
\*   failed     the step that failed, "none" when none did
\*   unparsable the scanner output held no findings array to parse
\*   value      what the call resolved to, when not a findings list
IdleCall ==
    [op |-> "none", files |-> {}, pc |-> "idle", sess |-> NoSession, startSess |-> NoSession,
     nth |-> 0, created |-> FALSE, execIn |-> {}, killed |-> FALSE,
     failed |-> "none", outcome |-> "none", unparsable |-> FALSE,
     parseThrew |-> FALSE, findings |-> <<>>, value |-> "none"]

InFlight(k) == call[k].pc # "idle"

\* The first caller not inside a call ("k2" only while "k1" is busy).
FirstFreeCaller == IF call["k1"].pc = "idle" THEN "k1" ELSE "k2"

\* The call settles: it resolves or rejects, and step names what failed.
Settle(c, outcome, step) ==
    [c EXCEPT !.pc = "done", !.sess = NoSession, !.outcome = outcome,
              !.failed = IF step = "none" THEN c.failed ELSE step]

\* this.sandbox.runPythonCode(script) is invoked: on the session held now. On
\* null the member access throws before anything runs.
StartExec(c, pc) ==
    IF sandbox = NoSession
    THEN Settle(c, "rejected", pc)
    ELSE [c EXCEPT !.pc = pc, !.sess = sandbox, !.execIn = @ \cup {sandbox}]

\* The body of a scan call after `if (!this.sandbox) await this.initialize()`,
\* up to its first await. analyzeWithMCP: setupWorkspace throws without a
\* session. runSecurityScan and fetchFileFromGitHub: this.sandbox!.runPythonCode
\* is inside the try block, whose catch returns [] or null.
StartBody(c, sb) ==
    CASE c.op = "analyze" ->
            IF sb = NoSession THEN Settle(c, "rejected", "workspace")
            ELSE [c EXCEPT !.pc = "workspace", !.sess = sb, !.execIn = @ \cup {sb}]
      [] c.op \in {"scan", "fetch"} ->
            IF sb = NoSession THEN Settle(c, "resolved", c.op)
            ELSE [c EXCEPT !.pc = c.op, !.sess = sb, !.execIn = @ \cup {sb}]
      [] OTHER -> Settle(c, "resolved", "none")

\* The call goes on as c; when it has settled the caller has its answer and
\* may call again.
Finish(k, c) ==
    IF c.pc = "done"
    THEN call' = [call EXCEPT ![k] = IdleCall] /\ ret' = c
    ELSE call' = [call EXCEPT ![k] = c] /\ UNCHANGED ret

\* A mutation of NoSandbox: a scan call initializes whatever the agent holds.
NoSandboxAlways(sb) == TRUE

\* if (!this.sandbox) await this.initialize(), the head of every scan call.
NoSandbox(sb) == sb = NoSession

\* A caller invokes op on the agent; the code runs up to its first await.
Invoke(k, op) ==
    /\ call[k].pc = "idle"
    /\ k = FirstFreeCaller
    /\ Len(issued) < MaxOps
    /\ issued' = Append(issued, op)
    /\ \E files \in FileLists(op) :
       LET c == [IdleCall EXCEPT !.op = op, !.files = files, !.startSess = sandbox,
                                 !.nth = Len(issued) + 1]
       IN CASE op = "initialize" ->
                 /\ Finish(k, [c EXCEPT !.pc = "create"])
                 /\ UNCHANGED kills
            [] op = "cleanup" ->
                 IF sandbox # NoSession
                 THEN /\ kills' = kills \cup {sandbox}
                      /\ Finish(k, [c EXCEPT !.pc = "kill", !.sess = sandbox, !.killed = TRUE])
                 ELSE /\ Finish(k, Settle(c, "resolved", "none"))
                      /\ UNCHANGED kills
            [] OTHER ->
                 /\ Finish(k, IF NoSandbox(sandbox) THEN [c EXCEPT !.pc = "create"]
                              ELSE StartBody(c, sandbox))
                 /\ UNCHANGED kills
    /\ UNCHANGED <<sandbox, nsess, workspace, repoVars, readVars, orchVars, migVars>>

\* A call issued when every earlier call has returned.
AgentCall(k, op) ==
    /\ \A j \in Callers : ~InFlight(j)
    /\ Invoke(k, op)

\* A call issued while another call is suspended at an await.
AgentCallOverlapping(k, op) ==
    /\ \E j \in Callers : InFlight(j)
    /\ Invoke(k, op)

\* initialize: await CodeInterpreter.create(...) settles. A sandbox that
\* passes the type guard is stored and setupMCPServers starts the install
\* script in it; one that does not is dropped; any error is rethrown as
\* 'E2B sandbox initialization failed'.
AgentCreateDone(k) ==
    /\ call[k].pc = "create"
    /\ \/ /\ nsess < MaxSessions
          /\ nsess' = nsess + 1
          /\ sandbox' = nsess + 1
          /\ Finish(k, [call[k] EXCEPT !.pc = "install", !.sess = nsess + 1,
                                       !.created = TRUE,
                                       !.execIn = @ \cup {nsess + 1}])
       \/ /\ nsess < MaxSessions
          /\ nsess' = nsess + 1
          /\ Finish(k, Settle([call[k] EXCEPT !.created = TRUE], "rejected", "guard"))
          /\ UNCHANGED sandbox
       \/ /\ Finish(k, Settle(call[k], "rejected", "create"))
          /\ UNCHANGED <<sandbox, nsess>>
    /\ UNCHANGED <<kills, issued, workspace, repoVars, readVars, orchVars, migVars>>

\* setupMCPServers: the install script settles; the config script is started.
AgentInstallDone(k) ==
    /\ call[k].pc = "install"
    /\ \/ Finish(k, StartExec(call[k], "config"))
       \/ Finish(k, Settle(call[k], "rejected", "install"))
    /\ UNCHANGED <<sandbox, nsess, kills, issued, workspace, repoVars, readVars, orchVars, migVars>>

\* setupMCPServers: the config script settles; initialize resolves and a scan
\* call goes on with its body.
AgentConfigDone(k) ==
    /\ call[k].pc = "config"
    /\ \/ Finish(k, StartBody(call[k], sandbox))
       \/ Finish(k, Settle(call[k], "rejected", "config"))
    /\ UNCHANGED <<sandbox, nsess, kills, issued, workspace, repoVars, readVars, orchVars, migVars>>

\* setupWorkspace's script: the files of the call are written under /workspace
\* of the session; what is there already stays.
Written(k) == [workspace EXCEPT ![call[k].sess] = @ \cup call[k].files]

\* analyzeWithMCP: the workspace script settles; runAnalysis throws without a
\* session and otherwise starts the analysis script. An error is rethrown,
\* whether the script had written the files or not.
AgentWorkspaceDone(k) ==
    /\ call[k].pc = "workspace"
    /\ \/ /\ Finish(k, StartExec(call[k], "analysis"))
          /\ workspace' = Written(k)
       \/ /\ Finish(k, Settle(call[k], "rejected", "workspace"))
          /\ workspace' \in {workspace, Written(k)}
    /\ UNCHANGED <<sandbox, nsess, kills, issued, repoVars, readVars, orchVars, migVars>>

\* The try block of runAnalysis and of runSecurityScan once the script has
\* run: the output is taken from the result and parsed.
Parsed(c, result) ==
    LET p == parseAnalysisOutput(OutputOf(result))
    IN [Settle(c, "resolved", "none") EXCEPT !.unparsable = Unparsable(OutputOf(result)),
                                             !.parseThrew = p.threw,
                                             !.findings = p.findings]

\* What the analysis script can print in a session: it walks /workspace and
\* reports on the files it finds there, each finding with the path of its
\* file.
AnalysisResults(sid) ==
    { result \in ExecResults :
        \A n \in 1..Len(OutputOf(result).items) : OutputOf(result).items[n].file \in workspace[sid] }

\* runAnalysis: the analysis script settles. The catch block returns [].
AgentAnalysisDone(k) ==
    /\ call[k].pc = "analysis"
    /\ \/ \E result \in AnalysisResults(call[k].sess) : Finish(k, Parsed(call[k], result))
       \/ Finish(k, Settle(call[k], "resolved", "analysis"))
    /\ UNCHANGED <<sandbox, nsess, kills, issued, workspace, repoVars, readVars, orchVars, migVars>>

\* A mutation of AgentScanDone: the error of the scan script is rethrown.
AgentScanDoneRethrow(k) ==
    /\ call[k].pc = "scan"
    /\ \/ \E result \in ExecResults : Finish(k, Parsed(call[k], result))
       \/ Finish(k, Settle(call[k], "rejected", "scan"))
    /\ UNCHANGED <<sandbox, nsess, kills, issued, workspace, repoVars, readVars, orchVars, migVars>>

\* runSecurityScan: the scan script settles. The catch block returns [].
AgentScanDone(k) ==
    /\ call[k].pc = "scan"
    /\ \/ \E result \in ExecResults : Finish(k, Parsed(call[k], result))
       \/ Finish(k, Settle(call[k], "resolved", "scan"))
    /\ UNCHANGED <<sandbox, nsess, kills, issued, workspace, repoVars, readVars, orchVars, migVars>>

\* fetchFileFromGitHub: the script settles; null on 'error' in the output and
\* on a thrown error.
AgentFetchDone(k) ==
    /\ call[k].pc = "fetch"
    /\ \/ \E result \in ExecResults :
            Finish(k, [Settle(call[k], "resolved", "none") EXCEPT
                          !.value = IF OutputOf(result).error THEN "null" ELSE "output"])
       \/ Finish(k, [Settle(call[k], "resolved", "fetch") EXCEPT !.value = "null"])
    /\ UNCHANGED <<sandbox, nsess, kills, issued, workspace, repoVars, readVars, orchVars, migVars>>

\* A mutation of AgentKillDone: a failed kill() is rethrown.
AgentKillDoneRethrow(k) ==
    /\ call[k].pc = "kill"
    /\ \/ /\ sandbox' = NoSession
          /\ Finish(k, Settle(call[k], "resolved", "none"))
       \/ /\ Finish(k, Settle(call[k], "rejected", "kill"))
          /\ UNCHANGED sandbox
    /\ UNCHANGED <<nsess, kills, issued, workspace, repoVars, readVars, orchVars, migVars>>

\* cleanup: await this.sandbox.kill() settles. On success this.sandbox is set
\* to null; an error is logged and the session stays held.
AgentKillDone(k) ==
    /\ call[k].pc = "kill"
    /\ \/ /\ sandbox' = NoSession
          /\ Finish(k, Settle(call[k], "resolved", "none"))
       \/ /\ Finish(k, Settle(call[k], "resolved", "kill"))
          /\ UNCHANGED sandbox
    /\ UNCHANGED <<nsess, kills, issued, workspace, repoVars, readVars, orchVars, migVars>>

\* getSandboxInfo()
getSandboxInfo ==
    IF sandbox # NoSession THEN [sandboxId |-> sandbox, status |-> "running"]
    ELSE [sandboxId |-> NoSession, status |-> "not_initialized"]

AgentInit ==
    /\ sandbox = NoSession
    /\ nsess = 0
    /\ kills = {}
    /\ call = [k \in Callers |-> IdleCall]
    /\ issued = <<>>
    /\ ret = IdleCall
    /\ workspace = [sid \in 1..MaxSessions |-> {}]

\* The operations of the agent, each call issued after the one before returned.
AgentNext ==
    \E k \in Callers :
        \/ \E op \in Ops : AgentCall(k, op)
        \/ AgentCreateDone(k)
        \/ AgentInstallDone(k)
        \/ AgentConfigDone(k)
        \/ AgentWorkspaceDone(k)
        \/ AgentAnalysisDone(k)
        \/ AgentScanDone(k)
        \/ AgentFetchDone(k)
        \/ AgentKillDone(k)

\* The same with calls that overlap.
AgentNextConcurrent ==
    \/ AgentNext
    \/ \E k \in Callers, op \in Ops : AgentCallOverlapping(k, op)

\* ======================================================================
\* Retrieval API: the read operations of AnalysisRepository and the routes
\* ======================================================================
\* ------------------------------------------------- JavaScript values
\* A value by what parseInt, parseFloat and || make of it. kind is "null",
\* "undefined", "nan", "number", or for a string "numeric" (a decimal number),
\* "word" (no leading number) or "empty" (''); int and frac are the integer
\* part and the tenths of a number or numeric string.
Val(kind, int, frac) == [kind |-> kind, int |-> int, frac |-> frac]

JsNull == Val("null", 0, 0)
JsUndefined == Val("undefined", 0, 0)
JsNaN == Val("nan", 0, 0)
JsWord == Val("word", 0, 0)
JsEmpty == Val("empty", 0, 0)
JsNum(n) == Val("number", n, 0)
JsText(n) == Val("numeric", n, 0)

Truthy(v) ==
    /\ v.kind \notin {"null", "undefined", "nan", "empty"}
    /\ ~(v.kind = "number" /\ v.int = 0 /\ v.frac = 0)

\* parseInt(String(v), 10) and parseFloat(String(v)).
parseInt10(v) == IF v.kind \in {"number", "numeric"} THEN JsNum(v.int) ELSE JsNaN
parseFloatJs(v) ==
    IF v.kind \in {"number", "numeric"} THEN Val("number", v.int, v.frac) ELSE JsNaN

\* value || '0'
OrZeroText(v) == IF Truthy(v) THEN v ELSE JsText(0)

\* A mutation of safeParseInt: the isNaN test is missing.
safeParseIntUnchecked(v) == parseInt10(OrZeroText(v))

\* safeParseInt and safeParseFloat of GET /stats.
safeParseInt(v) ==
    LET parsed == parseInt10(OrZeroText(v))
    IN IF parsed.kind = "nan" THEN JsNum(0) ELSE parsed

safeParseFloat(v) ==
    LET parsed == parseFloatJs(OrZeroText(v))
    IN IF parsed.kind = "nan" THEN JsNum(0) ELSE parsed

\* ------------------------------------------------- getStats
StatFields ==
    {"total_analyses", "total_findings", "total_critical", "total_high",
     "total_medium", "total_low", "total_info", "avg_duration"}

\* getStats: defaultStats, every member the string '0'.
defaultStats == [f \in StatFields |-> JsText(0)]

RECURSIVE SumCol(_, _)
SumCol(rows, col) == IF rows = <<>> THEN 0 ELSE Head(rows)[col] + SumCol(Tail(rows), col)

\* The row of the aggregate query over the completed analyses: integers, and
\* the average as a numeric string.
StatsRow(as) ==
    LET done == SelectSeq(as, LAMBDA row : row.status = "completed")
        n == Len(done)
        total == SumCol(done, "duration")
    IN [total_analyses |-> JsNum(n),
        total_findings |-> JsNum(SumCol(done, "total_findings")),
        total_critical |-> JsNum(SumCol(done, "critical_count")),
        total_high |-> JsNum(SumCol(done, "high_count")),
        total_medium |-> JsNum(SumCol(done, "medium_count")),
        total_low |-> JsNum(SumCol(done, "low_count")),
        total_info |-> JsNum(SumCol(done, "info_count")),
        avg_duration |-> IF n = 0 THEN JsText(0)
                         ELSE Val("numeric", total \div n, ((total * 10) \div n) % 10)]

\* How the query of getStats ends: with its row, with no row, with error
\* 42P01 (undefined table) or with another error (store unreachable).
QueryOutcomes == {"row", "norows", "42P01", "error"}

\* What a call of getStats gives: it resolves to an object (nil: to null or
\* undefined) or rejects.
StatsResult(outcome, nil, fields) == [outcome |-> outcome, nil |-> nil, fields |-> fields]

\* A mutation of getStats: an error other than 42P01 is rethrown.
getStatsRethrow(q, as) ==
    IF q = "row" THEN StatsResult("resolved", FALSE, StatsRow(as))
    ELSE IF q = "error" THEN StatsResult("rejected", TRUE, defaultStats)
    ELSE StatsResult("resolved", FALSE, defaultStats)

\* getStats when its query ends as q against the committed analyses as.
getStats(q, as) ==
    IF q = "row" THEN StatsResult("resolved", FALSE, StatsRow(as))
    ELSE StatsResult("resolved", FALSE, defaultStats)

\* ------------------------------------------------- GET /stats
\* Results of analysisRepo.getStats() that hold no usable number: null, and
\* objects whose members are null, undefined, NaN, a word or ''; and one
\* with numbers next to nulls.
DegenerateStats ==
    { StatsResult("resolved", TRUE, defaultStats) }
    \cup { StatsResult("resolved", FALSE, [f \in StatFields |-> v]) :
             v \in {JsNull, JsUndefined, JsNaN, JsWord, JsEmpty} }
    \cup { StatsResult("resolved", FALSE,
               [f \in StatFields |-> IF f = "total_analyses" THEN JsNum(3)
                                     ELSE IF f = "avg_duration" THEN Val("numeric", 12, 5)
                                     ELSE JsNull]) }

\* What the route may get from analysisRepo.getStats().
StatsReturns(as) ==
    { getStats(q, as) : q \in QueryOutcomes }
    \cup DegenerateStats
    \cup { StatsResult("rejected", TRUE, defaultStats) }

\* stats?.member
Member(stats, f) == IF stats.nil THEN JsUndefined ELSE stats.fields[f]

\* The data object of the response, and the one of defaultStats of the route.
StatsData(stats) ==
    [totalAnalyses |-> safeParseInt(Member(stats, "total_analyses")),
     totalFindings |-> safeParseInt(Member(stats, "total_findings")),
     criticalIssues |-> safeParseInt(Member(stats, "total_critical")),
     highIssues |-> safeParseInt(Member(stats, "total_high")),
     mediumIssues |-> safeParseInt(Member(stats, "total_medium")),
     lowIssues |-> safeParseInt(Member(stats, "total_low")),
     infoIssues |-> safeParseInt(Member(stats, "total_info")),
     avgDuration |-> safeParseFloat(Member(stats, "avg_duration"))]

ZeroData ==
    [totalAnalyses |-> JsNum(0), totalFindings |-> JsNum(0), criticalIssues |-> JsNum(0),
     highIssues |-> JsNum(0), mediumIssues |-> JsNum(0), lowIssues |-> JsNum(0),
     infoIssues |-> JsNum(0), avgDuration |-> JsNum(0)]

\* ------------------------------------------------- read requests
\* The limit the list route passes on when the parameter gives none.
DefaultLimit == 50

\* An id no analysis is ever stored under.
UnknownId == "a9"
IdParams == AnalysisIds \cup {UnknownId}
RepoParams == {Absent, "", "o/r", "o/q"}
LimitParams == {JsUndefined, JsWord, JsText(0), JsText(1), JsText(0 - 1)}

Req(route, id, repo, limit) == [route |-> route, id |-> id, repo |-> repo, limit |-> limit]
NoReq == Req("none", "none", Absent, JsUndefined)

\* GET /analyses/:id, GET /analyses, GET /stats, and getStats() called directly.
ReadRequests ==
    { Req("byId", id, Absent, JsUndefined) : id \in IdParams }
    \cup { Req("list", "none", repo, limit) : repo \in RepoParams, limit \in LimitParams }
    \cup { Req("stats", "none", Absent, JsUndefined), Req("getStats", "none", Absent, JsUndefined) }

\* parseInt(req.query.limit) || 50
LimitOf(param) ==
    LET parsed == parseInt10(param)
    IN IF Truthy(parsed) THEN parsed.int ELSE DefaultLimit

\* ORDER BY analyzed_at DESC
RECURSIVE OrderByAnalyzedAtDesc(_)
OrderByAnalyzedAtDesc(rows) ==
    IF rows = <<>> THEN <<>>
    ELSE LET latest == CHOOSE k \in 1..Len(rows) :
                          \A j \in 1..Len(rows) :
                              \/ rows[j].analyzed_at < rows[k].analyzed_at
                              \/ rows[j].analyzed_at = rows[k].analyzed_at /\ k <= j
         IN << rows[latest] >>
                \o OrderByAnalyzedAtDesc(SubSeq(rows, 1, latest - 1)
                                            \o SubSeq(rows, latest + 1, Len(rows)))

\* LIMIT n, for n >= 0
SqlLimit(rows, n) == SubSeq(rows, 1, IF n < Len(rows) THEN n ELSE Len(rows))

\* The rows of a SELECT without ORDER BY come in any order.
AnyOrder(rows) ==
    { [k \in 1..Len(rows) |-> rows[perm[k]]] :
        perm \in { f \in [1..Len(rows) -> 1..Len(rows)] :
                      \A a, b \in 1..Len(rows) : f[a] = f[b] => a = b } }

\* The first query of a list request: getAnalysesByRepo when the repo
\* parameter is truthy, getRecentAnalyses otherwise.
ListRows(as, req, limit) ==
    SqlLimit(OrderByAnalyzedAtDesc(
                 IF req.repo \in {Absent, ""} THEN as
                 ELSE SelectSeq(as, LAMBDA row : row.repo_full_name = req.repo)),
             limit)

IdleRead == [pc |-> "idle", req |-> NoReq, limit |-> 0, stored |-> FALSE,
             rows |-> <<>>, order |-> <<>>, out |-> <<>>]

\* A response. status, success, data and count are the HTTP answer (stats the
\* data object of GET /stats); outcome and isNull say how the repository call
\* ended, got what getStats gave and query how its query ended; stored and
\* emptyStore say what the store held when the first query ran, queryFailed
\* that a query of the request failed, settled the order in which the
\* findings queries of a list settled.
NoResp ==
    [route |-> "none", req |-> NoReq, limit |-> 0, status |-> 0, success |-> FALSE,
     data |-> <<>>, count |-> 0, stats |-> ZeroData, outcome |-> "none",
     isNull |-> FALSE, got |-> StatsResult("none", TRUE, defaultStats),
     query |-> "none", stored |-> FALSE, emptyStore |-> FALSE, queryFailed |-> FALSE,
     settled |-> <<>>]

\* The catch block of an analyses route: the repository call rejected.
Respond500 ==
    [NoResp EXCEPT !.route = rd.req.route, !.req = rd.req, !.limit = rd.limit,
                   !.status = 500, !.outcome = "rejected", !.stored = rd.stored,
                   !.queryFailed = TRUE]

\* res.json({success: true, data, ...}) after the repository call resolved.
Respond200(data) ==
    [NoResp EXCEPT !.route = rd.req.route, !.req = rd.req, !.limit = rd.limit,
                   !.status = 200, !.success = TRUE, !.outcome = "resolved",
                   !.data = data, !.count = Len(data), !.stored = rd.stored]

\* ------------------------------------------------- read operations
\* A request arrives; the handler runs up to its first await.
ReadCall(req) ==
    /\ rd.pc = "idle"
    /\ resp = NoResp
    /\ rd' = [IdleRead EXCEPT !.pc = IF req.route \in {"stats", "getStats"}
                                     THEN "stats" ELSE "q1",
                              !.req = req, !.limit = LimitOf(req.limit)]
    /\ UNCHANGED <<resp, repoVars, agentVars, orchVars, migVars>>

\* A mutation of LookupAnalysisDone: the empty result is not tested and the
\* row read is undefined.
LookupAnalysisDoneUnchecked ==
    /\ rd.pc = "q1"
    /\ rd.req.route = "byId"
    /\ \/ /\ resp' = Respond500
          /\ rd' = IdleRead
       \/ LET rows == WhereId(analyses, rd.req.id)
          IN IF rows = <<>>
             THEN /\ resp' = [Respond500 EXCEPT !.queryFailed = FALSE]
                  /\ rd' = IdleRead
             ELSE /\ rd' = [rd EXCEPT !.pc = "q2", !.rows = rows, !.stored = TRUE]
                  /\ UNCHANGED resp
    /\ UNCHANGED <<repoVars, agentVars, orchVars, migVars>>

\* getAnalysis: SELECT * FROM analyses WHERE id = $1 settles. No row: the
\* call resolves to null and the route answers 404. An error is rethrown
\* and the route answers 500.
LookupAnalysisDone ==
    /\ rd.pc = "q1"
    /\ rd.req.route = "byId"
    /\ \/ /\ resp' = Respond500
          /\ rd' = IdleRead
       \/ LET rows == WhereId(analyses, rd.req.id)
          IN IF rows = <<>>
             THEN /\ resp' = [Respond200(<<>>) EXCEPT !.status = 404, !.success = FALSE,
                                                     !.isNull = TRUE]
                  /\ rd' = IdleRead
             ELSE /\ rd' = [rd EXCEPT !.pc = "q2", !.rows = rows, !.stored = TRUE]
                  /\ UNCHANGED resp
    /\ UNCHANGED <<repoVars, agentVars, orchVars, migVars>>

\* getAnalysis: the findings query (ORDER BY severity, file, line) settles.
LookupFindingsDone ==
    /\ rd.pc = "q2"
    /\ \/ resp' = Respond500
       \/ resp' = Respond200(<< mapToAnalysisResult(
                                   rd.rows[1],
                                   OrderBy(WhereAnalysisId(findings, rd.req.id))) >>)
    /\ rd' = IdleRead
    /\ UNCHANGED <<repoVars, agentVars, orchVars, migVars>>

\* getRecentAnalyses / getAnalysesByRepo: the analyses query settles. A
\* negative LIMIT is an error of the query.
ListQueryDone ==
    /\ rd.pc = "q1"
    /\ rd.req.route = "list"
    /\ \/ /\ resp' = Respond500
          /\ rd' = IdleRead
       \/ /\ rd.limit >= 0
          /\ LET rows == ListRows(analyses, rd.req, rd.limit)
             IN IF rows = <<>>
                THEN /\ resp' = Respond200(<<>>)
                     /\ rd' = IdleRead
                ELSE /\ rd' = [rd EXCEPT !.pc = "findings", !.rows = rows]
                     /\ UNCHANGED resp
    /\ UNCHANGED <<repoVars, agentVars, orchVars, migVars>>

\* Promise.all resolves with the values in the order of the promises it was
\* given: the value that settled as number j is that of row order[j].
InRowOrder(out, order) ==
    [k \in 1..Len(order) |-> out[CHOOSE j \in 1..Len(order) : order[j] = k]]

\* The rows whose findings query has not settled.
Unsettled == { k \in 1..Len(rd.rows) : \A j \in 1..Len(rd.order) : rd.order[j] # k }

\* A mutation of ListFindingsDone: the results are collected as the findings
\* queries settle.
ListFindingsDoneAsSettled ==
    /\ rd.pc = "findings"
    /\ \/ /\ resp' = Respond500
          /\ rd' = IdleRead
       \/ \E i \in Unsettled :
          \E rows \in AnyOrder(WhereAnalysisId(findings, rd.rows[i].id)) :
            LET out == Append(rd.out, mapToAnalysisResult(rd.rows[i], rows))
                order == Append(rd.order, i)
            IN IF Len(order) = Len(rd.rows)
               THEN /\ resp' = [Respond200(out) EXCEPT !.settled = order]
                    /\ rd' = IdleRead
               ELSE /\ rd' = [rd EXCEPT !.order = order, !.out = out]
                    /\ UNCHANGED resp
    /\ UNCHANGED <<repoVars, agentVars, orchVars, migVars>>

\* The findings query of one of the rows settles: the queries are issued
\* together and settle in any order. A failed one rejects the call; when the
\* last has settled Promise.all resolves.
ListFindingsDone ==
    /\ rd.pc = "findings"
    /\ \/ /\ resp' = Respond500
          /\ rd' = IdleRead
       \/ \E i \in Unsettled :
          \E rows \in AnyOrder(WhereAnalysisId(findings, rd.rows[i].id)) :
            LET out == Append(rd.out, mapToAnalysisResult(rd.rows[i], rows))
                order == Append(rd.order, i)
            IN IF Len(order) = Len(rd.rows)
               THEN /\ resp' = [Respond200(InRowOrder(out, order)) EXCEPT !.settled = order]
                    /\ rd' = IdleRead
               ELSE /\ rd' = [rd EXCEPT !.order = order, !.out = out]
                    /\ UNCHANGED resp
    /\ UNCHANGED <<repoVars, agentVars, orchVars, migVars>>

\* getStats() called directly: its query settles.
GetStatsDone ==
    /\ rd.pc = "stats"
    /\ rd.req.route = "getStats"
    /\ \E q \in QueryOutcomes :
          resp' = [NoResp EXCEPT !.route = "getStats", !.req = rd.req, !.query = q,
                                 !.got = getStats(q, analyses),
                                 !.outcome = getStats(q, analyses).outcome,
                                 !.emptyStore = (analyses = <<>>)]
    /\ rd' = IdleRead
    /\ UNCHANGED <<repoVars, agentVars, orchVars, migVars>>

\* GET /stats: await analysisRepo.getStats() settles; the catch block answers
\* with defaultStats.
StatsRouteDone ==
    /\ rd.pc = "stats"
    /\ rd.req.route = "stats"
    /\ \E st \in StatsReturns(analyses) :
          resp' = [NoResp EXCEPT !.route = "stats", !.req = rd.req, !.status = 200,
                                 !.success = TRUE, !.got = st, !.outcome = st.outcome,
                                 !.stats = IF st.outcome = "rejected" THEN ZeroData
                                           ELSE StatsData(st)]
    /\ rd' = IdleRead
    /\ UNCHANGED <<repoVars, agentVars, orchVars, migVars>>

\* The client has the response.
ReadReturn ==
    /\ resp # NoResp
    /\ resp' = NoResp
    /\ UNCHANGED <<rd, repoVars, agentVars, orchVars, migVars>>

\* A saveAnalysis issued when every earlier one has returned.
SaveCallAlone(s, r) ==
    /\ \A t \in Savers : save[t].pc = "idle"
    /\ SaveCall(s, r)

\* A step of saveAnalysis next to the reads. A response is delivered before
\* the store moves on.
SaveStep(s) ==
    /\ resp = NoResp
    /\ \/ \E r \in Results : SaveCallAlone(s, r)
       \/ SaveConnect(s)
       \/ SaveBegin(s)
       \/ SaveInsertAnalysis(s)
       \/ SaveInsertFinding(s)
       \/ SaveCommit(s)
       \/ SaveRollback(s)
       \/ SaveReturn(s)

ReadInit ==
    /\ rd = IdleRead
    /\ resp = NoResp

\* Reads served while analyses are saved one after another.
ReadNext ==
    \/ \E req \in ReadRequests : ReadCall(req)
    \/ LookupAnalysisDone
    \/ LookupFindingsDone
    \/ ListQueryDone
    \/ ListFindingsDone
    \/ GetStatsDone
    \/ StatsRouteDone
    \/ ReadReturn
    \/ \E s \in Savers : SaveStep(s)

\* ------------------------------------------------------------ orchestrator
\* RunAnalysis as the specification gives it (sections 4.1, 4.5, 5 and 7).
\* The three analyzers are the environment of the orchestrator: each task,
\* once started, reports findings, throws, or (the sandboxed and the AI
\* one) exceeds its deadline, at any time and in any order.
Analyzers == {"static", "sandbox", "ai"}
Deadlined == {"sandbox", "ai"}

\* Numbers of changed files a run is given.
FileCounts == {0, 1}

\* What the analyzers find in the changed file. The static and the sandboxed
\* finding are of the same issue and severity as each other, the AI finding
\* is of that issue too and more severe.
StaticFinding == MkFinding(<<"run", 11>>, "high", "a.js", OptPresent)
StaticOther == MkFinding(<<"run", 12>>, "critical", "b.js", OptAbsent)
SandboxFinding == MkFinding(<<"run", 21>>, "high", "a.js", OptPresent)
AiFinding == MkFinding(<<"run", 31>>, "critical", "a.js", OptPresent)

\* The findings lists analyzer a can report over n changed files.
AnalyzerOutputs(a, n) ==
    IF n = 0 THEN { <<>> }
    ELSE CASE a = "static" -> { <<>>, << StaticFinding, StaticOther >> }
           [] a = "sandbox" -> { <<>>, << SandboxFinding >> }
           [] OTHER -> { <<>>, << AiFinding >> }

SeverityRank(sev) ==
    CASE sev = "critical" -> 5
      [] sev = "high" -> 4
      [] sev = "medium" -> 3
      [] sev = "low" -> 2
      [] OTHER -> 1

\* The union of the findings handed to the Aggregator, each with the
\* analyzer that emitted it.
UnionOf(results) ==
    LET EmittedBy(a) == [k \in 1..Len(results[a]) |-> [finding |-> results[a][k], by |-> a]]
    IN EmittedBy("static") \o EmittedBy("sandbox") \o EmittedBy("ai")

\* Two findings are the same issue when file, line and ruleId match.
SameIssue(f, g) == f.file = g.file /\ f.line = g.line /\ f.ruleId = g.ruleId

\* Of two findings of one issue: the more severe, then the one with a fix
\* suggestion, then the static-rule one.
Preferred(t, u) ==
    LET HasFix(f) == f.fixSuggestion \notin {Absent, Null, ""}
        kt == << SeverityRank(t.finding.severity), IF HasFix(t.finding) THEN 1 ELSE 0,
                 IF t.by = "static" THEN 1 ELSE 0 >>
        ku == << SeverityRank(u.finding.severity), IF HasFix(u.finding) THEN 1 ELSE 0,
                 IF u.by = "static" THEN 1 ELSE 0 >>
    IN \/ kt[1] > ku[1]
       \/ kt[1] = ku[1] /\ kt[2] > ku[2]
       \/ kt[1] = ku[1] /\ kt[2] = ku[2] /\ kt[3] > ku[3]

\* Element i of the union survives deduplication.
Kept(u, i) ==
    \A j \in (1..Len(u)) \ {i} :
        SameIssue(u[i].finding, u[j].finding) => (Preferred(u[i], u[j]) \/ (~Preferred(u[j], u[i]) /\ i < j))

RECURSIVE Dedup(_, _)
Dedup(u, i) ==
    IF i > Len(u) THEN <<>>
    ELSE (IF Kept(u, i) THEN << u[i].finding >> ELSE <<>>) \o Dedup(u, i + 1)

\* Output ordering: severity descending, then file, then line ascending.
MergedBefore(f, g) ==
    LET kf == << 0 - SeverityRank(f.severity), TextRank(f.file), f.line >>
        kg == << 0 - SeverityRank(g.severity), TextRank(g.file), g.line >>
    IN \/ kf[1] < kg[1]
       \/ kf[1] = kg[1] /\ kf[2] < kg[2]
       \/ kf[1] = kg[1] /\ kf[2] = kg[2] /\ kf[3] < kg[3]

RECURSIVE InsertMerged(_, _)
InsertMerged(f, sorted) ==
    IF sorted = <<>> THEN << f >>
    ELSE IF MergedBefore(f, Head(sorted)) THEN << f >> \o sorted
    ELSE << Head(sorted) >> \o InsertMerged(f, Tail(sorted))

RECURSIVE SortMerged(_)
SortMerged(fs) ==
    IF fs = <<>> THEN <<>>
    ELSE InsertMerged(fs[Len(fs)], SortMerged(SubSeq(fs, 1, Len(fs) - 1)))

\* Aggregator.Merge: the deduplicated union, sorted.
Merge(results) == SortMerged(Dedup(UnionOf(results), 1))

\* stats recomputed from the merged findings and the files given to the run.
RunStats(fs, n) == [StatsOf(fs) EXCEPT !.totalFiles = n]

\* No run yet.
IdleRun ==
    [pc |-> "idle", files |-> 0, status |-> "none",
     task |-> [a \in Analyzers |-> "idle"], out |-> [a \in Analyzers |-> <<>>],
     threw |-> {}, timedOut |-> {}, logged |-> {}, order |-> <<>>,
     findings |-> <<>>, stats |-> RunStats(<<>>, 0),
     check |-> "none", conclusion |-> "none", persisted |-> "none", error |-> FALSE]

Reported(a) == run.task[a] = "reported"

\* RunAnalysis(prContext, files, customRules) is called: the result is created
\* as pending and the creation of the check run is awaited.
RunAnalysis(n) ==
    /\ run.pc = "idle"
    /\ run' = [run EXCEPT !.pc = "checkrun", !.files = n, !.status = "pending"]
    /\ UNCHANGED <<repoVars, agentVars, readVars, migVars>>

\* The check run is created in_progress, or its creation fails and is logged;
\* either way the three analyzer invocations are started together.
FanOut ==
    /\ run.pc = "checkrun"
    /\ \E created \in BOOLEAN :
         run' = [run EXCEPT !.pc = "analyzing", !.status = "analyzing",
                            !.check = IF created THEN "in_progress" ELSE "failed",
                            !.task = [a \in Analyzers |-> "running"]]
    /\ UNCHANGED <<repoVars, agentVars, readVars, migVars>>

\* Analyzer a reports its findings.
AnalyzerReports(a) ==
    /\ run.task[a] = "running"
    /\ \E fs \in AnalyzerOutputs(a, run.files) :
         run' = [run EXCEPT !.task[a] = "reported", !.out[a] = fs,
                            !.order = Append(@, a)]
    /\ UNCHANGED <<repoVars, agentVars, readVars, migVars>>

\* A mutation of AnalyzerThrows: the invocation is not wrapped, the error of
\* the analyzer aborts the run.
AnalyzerThrowsAbort(a) ==
    /\ run.task[a] = "running"
    /\ run.pc = "analyzing"
    /\ run' = [run EXCEPT !.task[a] = "reported", !.threw = @ \cup {a},
                          !.order = Append(@, a), !.pc = "returned",
                          !.status = "failed", !.error = TRUE]
    /\ UNCHANGED <<repoVars, agentVars, readVars, migVars>>

\* Analyzer a throws: the wrapper of the invocation logs the degradation and
\* reports zero findings from that analyzer.
AnalyzerThrows(a) ==
    /\ run.task[a] = "running"
    /\ run' = [run EXCEPT !.task[a] = "reported", !.out[a] = <<>>,
                          !.threw = @ \cup {a}, !.logged = @ \cup {a},
                          !.order = Append(@, a)]
    /\ UNCHANGED <<repoVars, agentVars, readVars, migVars>>

\* The deadline of the sandboxed or the AI analyzer passes: as a failure of
\* that analyzer, zero findings from it.
AnalyzerTimesOut(a) ==
    /\ a \in Deadlined
    /\ run.task[a] = "running"
    /\ run' = [run EXCEPT !.task[a] = "reported", !.out[a] = <<>>,
                          !.timedOut = @ \cup {a}, !.logged = @ \cup {a},
                          !.order = Append(@, a)]
    /\ UNCHANGED <<repoVars, agentVars, readVars, migVars>>

\* A mutation of Aggregate: the join is on the first outcome, not on all.
AggregateEarly ==
    /\ run.pc = "analyzing"
    /\ \E a \in Analyzers : Reported(a)
    /\ LET fs == Merge(run.out)
       IN run' = [run EXCEPT !.pc = "persisting", !.status = "completed",
                             !.findings = fs, !.stats = RunStats(fs, run.files)]
    /\ UNCHANGED <<repoVars, agentVars, readVars, migVars>>

\* All three outcomes are in: the Aggregator merges them, and the completed
\* result is handed to the repository.
Aggregate ==
    /\ run.pc = "analyzing"
    /\ \A a \in Analyzers : Reported(a)
    /\ LET fs == Merge(run.out)
       IN run' = [run EXCEPT !.pc = "persisting", !.status = "completed",
                             !.findings = fs, !.stats = RunStats(fs, run.files)]
    /\ UNCHANGED <<repoVars, agentVars, readVars, migVars>>

\* Save returned: a failure is logged and the result kept. The check run, if
\* one was created, is then updated.
PersistDone ==
    /\ run.pc = "persisting"
    /\ \E saved \in BOOLEAN :
         run' = [run EXCEPT !.persisted = IF saved THEN "ok" ELSE "failed",
                            !.pc = IF run.check = "in_progress" THEN "updating" ELSE "returned"]
    /\ UNCHANGED <<repoVars, agentVars, readVars, migVars>>

\* failure when a critical or a high finding is present, success otherwise.
ConclusionOf(fs) ==
    IF \E k \in 1..Len(fs) : fs[k].severity \in {"critical", "high"} THEN "failure" ELSE "success"

\* The check run is driven to completed (best effort) and the result returned.
CheckRunUpdated ==
    /\ run.pc = "updating"
    /\ \/ run' = [run EXCEPT !.pc = "returned", !.check = "completed",
                             !.conclusion = ConclusionOf(run.findings)]
       \/ run' = [run EXCEPT !.pc = "returned"]
    /\ UNCHANGED <<repoVars, agentVars, readVars, migVars>>

OrchInit == run = IdleRun

OrchNext ==
    \/ \E n \in FileCounts : RunAnalysis(n)
    \/ FanOut
    \/ \E a \in Analyzers : AnalyzerReports(a)
    \/ \E a \in Analyzers : AnalyzerThrows(a)
    \/ \E a \in Analyzers : AnalyzerTimesOut(a)
    \/ Aggregate
    \/ PersistDone
    \/ CheckRunUpdated

\* ------------------------------------------------------- migration script
\* scripts/migrate.js. The database is the environment: pool.connect() and
\* client.query(schema) resolve or reject.
\* let retries = 10
ConnectRetries == 10

\* Where schema.sql is found: at the first, second or third path tried, or
\* at none.
SchemaPlaces == {"src", "dist", "root", "none"}

\* The script has not run.
IdleMigrate ==
    [pc |-> "idle", production |-> FALSE, schemaAt |-> "none", retries |-> ConnectRetries,
     attempts |-> 0, connects |-> 0, held |-> FALSE, schemaRuns |-> 0, poolEnded |-> FALSE,
     thrown |-> "none", exitCode |-> 0 - 1]

\* migrate() is called: without DATABASE_URL the process exits with 1;
\* otherwise the pool is made and the first pool.connect() is awaited.
MigrateStart(url, production, schemaAt) ==
    /\ mig.pc = "idle"
    /\ mig' = IF url
              THEN [mig EXCEPT !.pc = "connect", !.production = production,
                               !.schemaAt = schemaAt, !.attempts = 1]
              ELSE [mig EXCEPT !.pc = "exited", !.exitCode = 1]
    /\ UNCHANGED <<repoVars, agentVars, readVars, orchVars>>

\* The block after the loop up to its first await: exit with 1 when
\* schema.sql is at none of the three paths, otherwise client.query(schema).
RunSchema(m) ==
    IF m.schemaAt = "none" THEN [m EXCEPT !.pc = "exited", !.exitCode = 1]
    ELSE [m EXCEPT !.pc = "query", !.schemaRuns = @ + 1]

\* A mutation of ConnectDone: the last failed attempt does not throw, the
\* loop ends and the script goes on without a client.
ConnectDoneNoThrow ==
    /\ mig.pc = "connect"
    /\ \/ mig' = RunSchema([mig EXCEPT !.connects = @ + 1, !.held = TRUE])
       \/ mig' = IF mig.retries - 1 = 0
                 THEN RunSchema([mig EXCEPT !.retries = 0])
                 ELSE [mig EXCEPT !.pc = "sleep", !.retries = @ - 1]
    /\ UNCHANGED <<repoVars, agentVars, readVars, orchVars>>

\* await pool.connect() settles. Resolved: break, and the script goes on to
\* the schema. Rejected: retries--, then the error is thrown when no retry
\* is left and the two-second sleep is awaited otherwise.
ConnectDone ==
    /\ mig.pc = "connect"
    /\ \/ mig' = RunSchema([mig EXCEPT !.connects = @ + 1, !.held = TRUE])
       \/ mig' = IF mig.retries - 1 = 0
                 THEN [mig EXCEPT !.pc = "rejected", !.retries = 0, !.thrown = "connect"]
                 ELSE [mig EXCEPT !.pc = "sleep", !.retries = @ - 1]
    /\ UNCHANGED <<repoVars, agentVars, readVars, orchVars>>

\* The sleep is over: the loop condition holds and pool.connect() is
\* awaited again.
SleepDone ==
    /\ mig.pc = "sleep"
    /\ mig' = [mig EXCEPT !.pc = "connect", !.attempts = @ + 1]
    /\ UNCHANGED <<repoVars, agentVars, readVars, orchVars>>

\* await client.query(schema) settles. Resolved: the client is released and
\* the finally block awaits pool.end(). Rejected: the catch block exits with 1.
QueryDone ==
    /\ mig.pc = "query"
    /\ \/ mig' = [mig EXCEPT !.pc = "end", !.held = FALSE]
       \/ mig' = [mig EXCEPT !.pc = "exited", !.exitCode = 1]
    /\ UNCHANGED <<repoVars, agentVars, readVars, orchVars>>

\* await pool.end() settles: migrate() resolves, or rejects with its error.
PoolEndDone ==
    /\ mig.pc = "end"
    /\ \/ mig' = [mig EXCEPT !.pc = "resolved", !.poolEnded = TRUE]
       \/ mig' = [mig EXCEPT !.pc = "rejected", !.thrown = "end"]
    /\ UNCHANGED <<repoVars, agentVars, readVars, orchVars>>

MigrateInit == mig = IdleMigrate

MigrateNext ==
    \/ \E url, production \in BOOLEAN, schemaAt \in SchemaPlaces :
          MigrateStart(url, production, schemaAt)
    \/ ConnectDone
    \/ SleepDone
    \/ QueryDone
    \/ PoolEndDone

Init == RepoInit /\ AgentInit /\ ReadInit /\ OrchInit /\ MigrateInit

\* The agent alone, its calls issued one after another.
SpecAgent == Init /\ [][AgentNext]_vars

\* The agent alone, its calls overlapping.
SpecAgentConcurrent == Init /\ [][AgentNextConcurrent]_vars

\* The repository alone.
SpecRepo == Init /\ [][RepoNext]_vars

\* The retrieval API next to the repository.
SpecRead == Init /\ [][ReadNext]_vars

\* One run of the orchestrator.
SpecOrch == Init /\ [][OrchNext]_vars

\* One run of the migration script.
SpecMigrate == Init /\ [][MigrateNext]_vars

Next == RepoNext \/ AgentNextConcurrent \/ ReadNext \/ OrchNext \/ MigrateNext

Spec == Init /\ [][Next]_vars

\* ------------------------------------------------------------- claims
\* No call is suspended at an await.
Quiet == \A k \in Callers : ~InFlight(k)

\* The call that returned last was an op call.
ReturnedOp(op) == ret.pc = "done" /\ ret.op = op

Sessions == 1..nsess

\* C5: every sandbox session the agent created is torn down: the agent drops
\* no created session without kill() having been invoked on it (a created
\* session is the one held or one that was killed), and once the cleanup() that
\* ends a sequence of calls has returned, kill() has been invoked on every
\* session created.
C5_EverySessionTornDown ==
    /\ \A sid \in Sessions : sid = sandbox \/ sid \in kills
    /\ (Quiet /\ ReturnedOp("cleanup")) => \A sid \in Sessions : sid \in kills

\* C6: analyzeWithMCP rejects whenever a step of it failed (acquiring the
\* session, MCP setup, workspace setup or the analysis script) and resolves
\* only when none did.
C6_RejectsOnAnyFailure ==
    ReturnedOp("analyze") => (ret.failed # "none" <=> ret.outcome = "rejected")

\* C7: parsing scanner output never fails a scan: when the output of the
\* analysis or scan script holds no JSON object with a findings array (no match,
\* invalid JSON or a findings member that is no array), parseAnalysisOutput
\* throws nothing and the scan resolves with zero findings.
C7_ParsingNeverFailsAScan ==
    (ret.pc = "done" /\ ret.op \in {"analyze", "scan"} /\ ret.unparsable)
        => /\ ret.outcome = "resolved"
           /\ ret.findings = <<>>
           /\ ~ret.parseThrew

\* A scan returned whose script printed text that is not valid JSON.
C7_Witness ==
    /\ ret.pc = "done"
    /\ ret.op \in {"analyze", "scan"}
    /\ ret.unparsable
    /\ ret.failed = "none"
    /\ ret.outcome = "resolved"

\* C8: cleanup() never propagates a teardown failure: it resolves whether
\* kill() resolved or rejected.
C8_CleanupNeverRejects == ReturnedOp("cleanup") => ret.outcome = "resolved"

\* A cleanup() returned whose kill() had rejected.
C8_Witness == ReturnedOp("cleanup") /\ ret.killed /\ ret.failed = "kill"

\* The call issued just before the call that returned last was an op call.
IssuedBefore(op) == ret.nth >= 2 /\ issued[ret.nth - 1] = op

\* C9: cleanup() is idempotent and safe without a session: on an agent that
\* holds no session it resolves without invoking kill() and changes nothing,
\* and a cleanup() that follows a cleanup() invokes no second kill() and leaves
\* the agent as the first one left it.
C9_CleanupIdempotent ==
    (Quiet /\ ReturnedOp("cleanup"))
        => /\ ret.startSess = NoSession
                => (ret.outcome = "resolved" /\ ~ret.killed /\ sandbox = NoSession)
           /\ IssuedBefore("cleanup") => (~ret.killed /\ sandbox = ret.startSess)

\* Every call issued so far is a scan call.
OnlyScanCalls == \A n \in 1..Len(issued) : issued[n] \in ScanOps

\* C10 as stated: in a sequence of scan calls with no cleanup() in between, only
\* the first call has a sandbox created.
C10_CreatedOnlyByFirstCall ==
    (OnlyScanCalls /\ ret.pc = "done" /\ ret.nth >= 2) => ~ret.created

\* C10: a held session is reused. A scan call issued while the agent holds a
\* session never creates a sandbox, never runs the MCP setup and executes only
\* in the session held; a sandbox is created only by a call that found the
\* agent holding none.
C10_HeldSessionReused ==
    /\ \A k \in Callers :
          (call[k].op \in ScanOps /\ call[k].startSess # NoSession)
              => /\ call[k].pc \notin {"create", "install", "config"}
                 /\ ~call[k].created
                 /\ call[k].execIn \subseteq {call[k].startSess}
                 /\ sandbox = call[k].startSess
    /\ (ret.pc = "done" /\ ret.op \in ScanOps)
          => /\ ret.created => ret.startSess = NoSession
             /\ ret.startSess # NoSession => ret.execIn \subseteq {ret.startSess}

\* A later scan call of a sequence of scan calls returned: it ran in the
\* session the agent held and created none.
C10_Witness ==
    /\ OnlyScanCalls
    /\ ret.pc = "done"
    /\ ret.nth >= 2
    /\ ret.startSess # NoSession
    /\ ret.execIn = {ret.startSess}
    /\ ~ret.created

\* A scan call of caller k has a script running in session sid.
ExecutesIn(k, sid) ==
    /\ call[k].op \in ScanOps
    /\ call[k].pc \in {"install", "config", "workspace", "analysis", "scan", "fetch"}
    /\ call[k].sess = sid

\* C11: a sandbox session is never used by two runs at once: two scan calls in
\* flight on one agent never have code executing in the same session at the
\* same time.
C11_SessionNeverShared ==
    \A j, k \in Callers, sid \in Sessions :
        (ExecutesIn(j, sid) /\ ExecutesIn(k, sid)) => j = k

\* ------------------------------------------------- retrieval claims
\* The value is zero: the number 0 or the string '0'.
IsZero(v) == v.kind \in {"number", "numeric"} /\ v.int = 0 /\ v.frac = 0

\* C12: getStats resolves for every outcome of its query and never rejects;
\* when the query fails (undefined table or any other error) or returns no
\* row, the object it returns has all eight members zero, and against an empty
\* store every member it returns is zero.
C12_GetStatsNeverRejects ==
    resp.route = "getStats"
        => /\ resp.outcome = "resolved"
           /\ ~resp.got.nil
           /\ (resp.query # "row" \/ resp.emptyStore)
                 => \A f \in StatFields : IsZero(resp.got.fields[f])

\* getStats returned after its query failed with an error other than 42P01,
\* while the store held an analysis.
C12_Witness ==
    /\ resp.route = "getStats"
    /\ resp.query = "error"
    /\ ~resp.emptyStore
    /\ resp.outcome = "resolved"

\* The member of the getStats result each member of the response is made of.
SourceOf ==
    [totalAnalyses |-> "total_analyses", totalFindings |-> "total_findings",
     criticalIssues |-> "total_critical", highIssues |-> "total_high",
     mediumIssues |-> "total_medium", lowIssues |-> "total_low",
     infoIssues |-> "total_info", avgDuration |-> "avg_duration"]

\* C13: GET /stats always answers 200 with success true and a data object of
\* eight numbers: a member that getStats gave as null, undefined, NaN or a
\* non-numeric string is reported as 0, and when getStats rejects every member
\* is 0.
C13_StatsRouteAlways200 ==
    resp.route = "stats"
        => /\ resp.status = 200
           /\ resp.success
           /\ \A f \in DOMAIN SourceOf :
                 /\ resp.stats[f].kind = "number"
                 /\ Member(resp.got, SourceOf[f]).kind
                        \in {"null", "undefined", "nan", "word", "empty"}
                      => resp.stats[f] = JsNum(0)
           /\ resp.got.outcome = "rejected" => resp.stats = ZeroData

\* GET /stats answered for a getStats result that holds a non-numeric string.
C13_Witness ==
    /\ resp.route = "stats"
    /\ resp.got.outcome = "resolved"
    /\ ~resp.got.nil
    /\ resp.got.fields["total_critical"] = JsWord
    /\ resp.stats = ZeroData

\* C14: a lookup of an id no analysis is stored under is no error: getAnalysis
\* resolves to null and the route answers 404. The lookup rejects, and the
\* route answers 500, only when a query failed; the route answers 200, with
\* the stored analysis, exactly when one is stored and no query failed.
C14_MissingIdIsNotAnError ==
    resp.route = "byId"
        => /\ resp.status \in {200, 404, 500}
           /\ resp.status = 500 <=> resp.outcome = "rejected"
           /\ resp.outcome = "rejected" => resp.queryFailed
           /\ resp.status = 404 <=> (resp.outcome = "resolved" /\ resp.isNull)
           /\ (resp.outcome = "resolved" /\ resp.isNull) <=> (~resp.queryFailed /\ ~resp.stored)
           /\ resp.status = 200 <=> (~resp.queryFailed /\ resp.stored)
           /\ resp.status = 200
                 => resp.data = << getAnalysis(analyses, findings, resp.req.id).value >>

\* GET /analyses/:id answered 404 for an unknown id while analyses are stored.
C14_Witness ==
    /\ resp.route = "byId"
    /\ resp.req.id = UnknownId
    /\ resp.status = 404
    /\ analyses # <<>>

\* The findings are in ORDER BY severity, file, line order.
Ordered(fs) == \A k \in 1..(Len(fs) - 1) : ~RowBefore(fs[k + 1], fs[k])

\* C15: the findings of every AnalysisResult the repository returns, through
\* getAnalysis, getRecentAnalyses and getAnalysesByRepo alike, are ordered by
\* severity, then file, then line.
C15_FindingsOrdered ==
    (resp.route \in {"byId", "list"} /\ resp.status = 200)
        => \A k \in 1..Len(resp.data) : Ordered(resp.data[k].findings)

\* The sum of the five severity counts of a result.
SeverityTotal(st) == st.critical + st.high + st.medium + st.low + st.info

\* C17: every AnalysisResult returned by getAnalysis, getRecentAnalyses or
\* getAnalysesByRepo has stats.totalFindings equal to the number of findings
\* returned and to the sum of its five severity counts.
C17_StatsMatchFindings ==
    (resp.route \in {"byId", "list"} /\ resp.status = 200)
        => \A k \in 1..Len(resp.data) :
              /\ resp.data[k].stats.totalFindings = Len(resp.data[k].findings)
              /\ SeverityTotal(resp.data[k].stats) = resp.data[k].stats.totalFindings

\* A list of two analyses was returned, one of them with findings.
C17_Witness ==
    /\ resp.route = "list"
    /\ resp.status = 200
    /\ Len(resp.data) = 2
    /\ \E k \in 1..2 : Len(resp.data[k].findings) = MaxFindings

\* The limit the claim gives a request: the integer value of the parameter,
\* 50 when it is absent or not a number.
StatedLimit(param) ==
    IF parseInt10(param).kind = "nan" THEN DefaultLimit ELSE parseInt10(param).int

\* C18: GET /analyses with a repo parameter returns only analyses of that
\* repository; every successful response holds at most limit analyses, limit
\* being the integer value of the limit parameter and 50 when it is absent or
\* not a number; count is the number of analyses in data.
C18_ListWithLimit ==
    (resp.route = "list" /\ resp.status = 200)
        => /\ resp.count = Len(resp.data)
           /\ Len(resp.data) <= StatedLimit(resp.req.limit)
           /\ resp.req.repo # Absent
                 => \A k \in 1..Len(resp.data) : resp.data[k].repoFullName = resp.req.repo

\* ------------------------------------------------- immutability
IsPrefix(a, b) == Len(a) <= Len(b) /\ SubSeq(b, 1, Len(a)) = a

\* The id of the result of caller s, or the id of one of its findings, is
\* stored.
IdStored(s) ==
    \/ KeyTaken(analyses, save[s].result.id)
    \/ \E k \in 1..Len(save[s].result.findings) :
          KeyTaken(findings, save[s].result.findings[k].id)

\* C16: a persisted analysis is never changed: every step of the repository
\* leaves each stored analyses row and findings row as it is (rows are only
\* added), and a saveAnalysis that ends while its id or one of its finding ids
\* is stored ends rejected.
C16_PersistedNeverChanged ==
    [][/\ IsPrefix(analyses, analyses')
       /\ IsPrefix(findings, findings')
       /\ \A s \in Savers :
             (save[s].pc # "done" /\ save'[s].pc = "done" /\ IdStored(s))
                 => save'[s].outcome = "rejected"]_vars

\* A saveAnalysis of an id that is stored was rejected at its analysis insert,
\* and the rows stored under the id, findings included, are those of the
\* earlier call.
C16_Witness ==
    \E s \in Savers :
        /\ Rejected(s)
        /\ save[s].err = "analysis"
        /\ Len(WhereId(analyses, save[s].result.id)) = 1
        /\ WhereAnalysisId(findings, save[s].result.id) # <<>>
        /\ RowsBy(analyses, save[s].call) = <<>>

\* ------------------------------------------------- orchestrator claims
\* The run is past the join: its findings are aggregated, handed to the
\* repository, or its check run completed.
PastJoin ==
    \/ run.pc \in {"persisting", "updating", "returned"}
    \/ run.status = "completed"
    \/ run.persisted # "none"
    \/ run.check = "completed"

\* The analyzers whose task is still running.
Outstanding == { a \in Analyzers : run.task[a] = "running" }

\* C19: within one run the three analyzers are started together, and nothing
\* is aggregated, persisted or reported on the check run while an analyzer is
\* outstanding; an analyzer ends only by its own report, throw or deadline,
\* never because a sibling finished, failed or timed out.
C19_JoinOnAllThree ==
    /\ (\E a \in Analyzers : run.task[a] # "idle") => (\A a \in Analyzers : run.task[a] # "idle")
    /\ PastJoin => Outstanding = {}
    /\ run.logged = run.threw \cup run.timedOut
    /\ \A a \in Analyzers :
         /\ Reported(a) <=> (\E k \in 1..Len(run.order) : run.order[k] = a)
         /\ (Reported(a) /\ a \notin run.logged) => run.out[a] \in AnalyzerOutputs(a, run.files)
         /\ ~Reported(a) => (run.out[a] = <<>> /\ a \notin run.logged)

\* A run returned with its check run completed, in which the static analyzer
\* finished first, the sandboxed one then timed out, and the AI analyzer
\* reported its finding last.
C19_Witness ==
    /\ run.pc = "returned"
    /\ run.check = "completed"
    /\ run.order = << "static", "sandbox", "ai" >>
    /\ "sandbox" \in run.timedOut
    /\ run.out["ai"] = << AiFinding >>
    /\ run.findings # <<>>

Elements(fs) == { fs[k] : k \in 1..Len(fs) }

FindingIds(a) == { a.findings[k].id : k \in 1..Len(a.findings) }

\* C21: an analysis returned by getAnalysis, getRecentAnalyses or
\* getAnalysesByRepo while analyses are being saved comes with every finding
\* it was saved with, never with a part of them.
C21_NeverPartOfTheFindings ==
    (resp.route \in {"byId", "list"} /\ resp.status = 200)
        => \A k \in 1..Len(resp.data) :
              LET a == resp.data[k]
              IN /\ Len(a.findings) = a.stats.totalFindings
                 /\ FindingIds(a) = { << a.id, n >> : n \in 1..a.stats.totalFindings }

\* A list returned while the transaction saving analysis a2 with two findings
\* had all its rows inserted and none committed: the list holds a1 with its
\* two findings and does not hold a2.
C21_Witness ==
    /\ resp.route = "list"
    /\ resp.status = 200
    /\ Len(resp.data) = 1
    /\ resp.data[1].id = "a1"
    /\ Len(resp.data[1].findings) = 2
    /\ \E s \in Savers : /\ save[s].pc = "commit"
                         /\ save[s].result.id = "a2"
                         /\ Len(save[s].result.findings) = 2

\* C22 as stated: once a cleanup() on an agent that held a session has
\* returned, kill() was invoked on that session and the agent holds no
\* session: getSandboxInfo() reports sandboxId null and 'not_initialized'.
C22_NoSessionAfterCleanup ==
    (Quiet /\ ReturnedOp("cleanup") /\ ret.startSess # NoSession)
        => /\ ret.killed
           /\ ret.startSess \in kills
           /\ sandbox = NoSession
           /\ getSandboxInfo = [sandboxId |-> NoSession, status |-> "not_initialized"]

\* C23: runSecurityScan never rejects because the scan script failed: when
\* running the script in the session throws, the call resolves with an empty
\* findings list; it rejects only when initialize() failed.
C23_ScanFailureGivesNoFindings ==
    ReturnedOp("scan")
        => /\ ret.failed = "scan" => (ret.outcome = "resolved" /\ ret.findings = <<>>)
           /\ ret.outcome = "rejected" => ret.failed \in {"create", "install", "config", "guard"}

\* A runSecurityScan returned whose script, started in the session held, threw.
C23_Witness ==
    /\ ReturnedOp("scan")
    /\ ret.failed = "scan"
    /\ ret.execIn # {}
    /\ ret.outcome = "resolved"

\* C24 as stated: every finding the output parser emits satisfies the Finding
\* model: severity is one of critical, high, medium, low, info, type is one of
\* security, license, quality, custom, and message and file are non-empty.
C24_ParsedFindingsWellFormed ==
    (ret.pc = "done" /\ ret.op \in {"analyze", "scan"})
        => \A k \in 1..Len(ret.findings) :
              /\ ret.findings[k].severity \in {"critical", "high", "medium", "low", "info"}
              /\ ret.findings[k].type \in {"security", "license", "quality", "custom"}
              /\ ret.findings[k].message # ""
              /\ ret.findings[k].file # ""

\* C25 as stated: in analyzeWithMCP and in runSecurityScan the files passed
\* to the call are in the workspace of the session when the scanner script is
\* started in it.
C25_FilesWrittenBeforeScanning ==
    \A k \in Callers :
        call[k].pc \in {"analysis", "scan"} => call[k].files \subseteq workspace[call[k].sess]

\* C26 as stated: the findings analyzeWithMCP resolves with are of files
\* passed in the context of that call, and a call with an empty file list
\* resolves with no finding.
C26_FindingsOnlyOfFilesPassed ==
    (ReturnedOp("analyze") /\ ret.outcome = "resolved")
        => /\ \A n \in 1..Len(ret.findings) :
                 ret.findings[n].file # "" => ret.findings[n].file \in ret.files
           /\ ret.files = {} => ret.findings = <<>>

\* C27 as stated: when initialize() has rejected on an agent that held no
\* session, because the sandbox could not be created or because the MCP setup
\* failed in the sandbox created, the agent holds no session afterwards and
\* getSandboxInfo() reports 'not_initialized'.
C27_NoSessionAfterFailedInitialize ==
    (Quiet /\ ret.pc = "done" /\ ret.outcome = "rejected" /\ ret.startSess = NoSession
           /\ ret.failed \in {"create", "guard", "install", "config"})
        => /\ sandbox = NoSession
           /\ getSandboxInfo.status = "not_initialized"

\* C28 as stated: a saveAnalysis that rejects throws the error of the
\* statement that failed first, also when the ROLLBACK issued after it failed
\* as well.
C28_FirstErrorIsThrown ==
    \A s \in Savers :
        (Rejected(s) /\ save[s].err \notin {"none", "connect"}) => save[s].thrown = save[s].err

\* C29: getRecentAnalyses and getAnalysesByRepo return the analyses latest
\* first, each with findings of its own id only, whatever the order in which
\* the findings queries issued together settle.
C29_ListInOrderWithOwnFindings ==
    (resp.route = "list" /\ resp.status = 200)
        => /\ \A k \in 1..(Len(resp.data) - 1) :
                 resp.data[k].analyzedAt >= resp.data[k + 1].analyzedAt
           /\ \A k \in 1..Len(resp.data) :
                 \A n \in 1..Len(resp.data[k].findings) :
                     resp.data[k].findings[n].id[1] = resp.data[k].id

\* A list of two analyses was returned whose findings queries settled the
\* second row first; both analyses have findings.
C29_Witness ==
    /\ resp.route = "list"
    /\ resp.status = 200
    /\ resp.settled = << 2, 1 >>
    /\ resp.data[1].id = "a1"
    /\ resp.data[1].findings # <<>>
    /\ resp.data[2].findings # <<>>

\* The script has ended: migrate() settled or the process exited.
MigrateEnded == mig.pc \in {"resolved", "rejected", "exited"}

\* C30: the migration script makes at most 10 connection attempts and none
\* after the first that succeeded; it executes the schema at most once and
\* only after a connection succeeded; when all 10 attempts failed it ends with
\* the connection error and has not executed the schema.
C30_BoundedRetriesThenSchemaOnce ==
    /\ mig.attempts <= ConnectRetries
    /\ mig.connects <= 1
    /\ mig.connects = 1 => mig.pc \notin {"connect", "sleep"}
    /\ mig.schemaRuns <= 1
    /\ mig.schemaRuns = 1 => mig.connects = 1
    /\ (MigrateEnded /\ mig.attempts > 0 /\ mig.connects = 0)
          => /\ mig.attempts = ConnectRetries
             /\ mig.pc = "rejected"
             /\ mig.thrown = "connect"
             /\ mig.schemaRuns = 0

\* The script ended after ten failed connection attempts.
C30_Witness ==
    /\ mig.pc = "rejected"
    /\ mig.thrown = "connect"
    /\ mig.attempts = ConnectRetries
    /\ mig.schemaRuns = 0

============================================================================
